---------------------------- MODULE Spec2Model ----------------------------
(*
  A model of the geostore package (src/geostore.go).

  Coordinates.  The code works on float64 degrees.  Every box edge the code
  ever computes is MINLAT + k * 180/4^d (resp. MINLNG + k * 360/4^d) with
  d <= MAXDEPTH, and all of these, their differences and their quarters are
  exactly representable in float64, so the arithmetic of Descend is exact.
  The model measures latitude in ticks of 90/4^MAXDEPTH degrees and longitude
  in ticks of 180/4^MAXDEPTH degrees: the world is [MINLAT, MAXLAT] x
  [MINLNG, MAXLNG] = [-4^10, 4^10]^2 ticks, a cell of depth d is
  2 * 4^(MAXDEPTH-d) ticks wide, and every box edge is an even tick.
  A point whose coordinate is no whole tick compares with every box edge as
  the odd tick of the depth-MAXDEPTH cell that holds it (see TickOf).

  Tags.  A Go string of one-byte symbols is a sequence of one-character
  strings: "8E" is <<"8", "E">>.

  Errors.  A Go error value is a string, NoErr for nil; a run-time panic of
  the Go program is the outcome PANIC.
*)
EXTENDS Integers, Naturals, Sequences, FiniteSets, TLC

----------------------------------------------------------------------------
(* Program constants (src/geostore.go:48-61) *)

MAXLAT == 1048576
MINLAT == -1048576
MAXLNG == 1048576
MINLNG == -1048576
MAXDEPTH == 10

CODES ==
  << <<"0", "1", "2", "3">>,
     <<"4", "5", "6", "7">>,
     <<"8", "9", "A", "B">>,
     <<"C", "D", "E", "F">> >>

NoErr == "nil"
ErrOutside == "Error in Geohasher.Descend(). Point is outside Box."
ErrNoSubBox == "Could not find matching sub_box for Point in Box"
ErrDepths == "geostore error: FindGeoBoxBounds error; viewbounds geoboxes at different depths."
ErrEmptyTag == "geostore error: empty tag passed to GetNorthBox()"
ErrSyntax == "strconv.ParseInt: invalid syntax"
PANIC == "panic: runtime error: index out of range"

Abs(x) == IF x < 0 THEN -x ELSE x

LatLng(lat, lng) == [Lat |-> lat, Lng |-> lng]

LatLngBounds(ne, sw) == [NE |-> ne, SW |-> sw]

WorldBox == LatLngBounds(LatLng(MAXLAT, MAXLNG), LatLng(MINLAT, MINLNG))

(* BOXSIZES[i], i in 0..MAXDEPTH, filled by init(): the world's size divided
   by 4 i times.  The array has MAXDEPTH+1 elements; the function below is
   indexed from 0 and has the same domain. *)
RECURSIVE BoxSizeAt(_)
BoxSizeAt(i) ==
  IF i = 0 THEN LatLng(MAXLAT - MINLAT, MAXLNG - MINLNG)
  ELSE LatLng(BoxSizeAt(i - 1).Lat \div 4, BoxSizeAt(i - 1).Lng \div 4)

BOXSIZES == [i \in 0..MAXDEPTH |-> BoxSizeAt(i)]

----------------------------------------------------------------------------
(* Geohasher *)

Geohasher(point) == [hash |-> <<>>, Box |-> WorldBox, Point |-> point]

GetHash(g) == g.hash

GetDepth(g) == Len(g.hash)

Within(p, b) ==
  IF p.Lat < b.SW.Lat \/ p.Lng < b.SW.Lng \/ p.Lat > b.NE.Lat \/ p.Lng > b.NE.Lng
  THEN FALSE
  ELSE TRUE

(* The sub_box of row i, column j built in the body of Descend's loops. *)
SubBox(box, i, j, latSpacing, lngSpacing) ==
  LatLngBounds(
    LatLng(box.SW.Lat + (i + 1) * latSpacing, box.SW.Lng + (j + 1) * lngSpacing),
    LatLng(box.SW.Lat + i * latSpacing, box.SW.Lng + j * lngSpacing))

(* DescendScan with the code read as CODES[j][i]. *)
RECURSIVE DescendScanTransposed(_, _, _, _, _)
DescendScanTransposed(g, i, j, latSpacing, lngSpacing) ==
  IF i >= 4 THEN [code |-> "X", g |-> g]
  ELSE IF j >= 4 THEN DescendScanTransposed(g, i + 1, 0, latSpacing, lngSpacing)
  ELSE LET sub_box == SubBox(g.Box, i, j, latSpacing, lngSpacing)
       IN  IF Within(g.Point, sub_box)
           THEN [code |-> CODES[j + 1][i + 1],
                 g |-> [g EXCEPT !.hash = g.hash \o <<CODES[j + 1][i + 1]>>,
                                 !.Box = sub_box]]
           ELSE DescendScanTransposed(g, i, j + 1, latSpacing, lngSpacing)

(* DescendScan with the rows scanned from the north: row 3 - i at turn i. *)
RECURSIVE DescendScanFromNorth(_, _, _, _, _)
DescendScanFromNorth(g, i, j, latSpacing, lngSpacing) ==
  IF i >= 4 THEN [code |-> "X", g |-> g]
  ELSE IF j >= 4 THEN DescendScanFromNorth(g, i + 1, 0, latSpacing, lngSpacing)
  ELSE LET sub_box == SubBox(g.Box, 3 - i, j, latSpacing, lngSpacing)
       IN  IF Within(g.Point, sub_box)
           THEN [code |-> CODES[4 - i][j + 1],
                 g |-> [g EXCEPT !.hash = g.hash \o <<CODES[4 - i][j + 1]>>,
                                 !.Box = sub_box]]
           ELSE DescendScanFromNorth(g, i, j + 1, latSpacing, lngSpacing)

(* The two nested loops of Descend from position (i, j) on: the first
   sub_box in scan order (i outer, j inner) that holds the point; code "X"
   when the scan ends without a match. *)
RECURSIVE DescendScan(_, _, _, _, _)
DescendScan(g, i, j, latSpacing, lngSpacing) ==
  IF i >= 4 THEN [code |-> "X", g |-> g]
  ELSE IF j >= 4 THEN DescendScan(g, i + 1, 0, latSpacing, lngSpacing)
  ELSE LET sub_box == SubBox(g.Box, i, j, latSpacing, lngSpacing)
       IN  IF Within(g.Point, sub_box)
           THEN [code |-> CODES[i + 1][j + 1],
                 g |-> [g EXCEPT !.hash = g.hash \o <<CODES[i + 1][j + 1]>>,
                                 !.Box = sub_box]]
           ELSE DescendScan(g, i, j + 1, latSpacing, lngSpacing)

(* Descend: the Geohasher after the call and the error returned. *)
Descend(g) ==
  IF ~Within(g.Point, g.Box)
  THEN [g |-> g, err |-> ErrOutside]
  ELSE LET latSpacing == Abs(g.Box.NE.Lat - g.Box.SW.Lat) \div 4
           lngSpacing == Abs(g.Box.NE.Lng - g.Box.SW.Lng) \div 4
           r == DescendScan(g, 0, 0, latSpacing, lngSpacing)
       IN  IF r.code = "X"
           THEN [g |-> r.g, err |-> ErrNoSubBox]
           ELSE [g |-> r.g, err |-> NoErr]

----------------------------------------------------------------------------
(* Locatable: an entity is a record of its location and its tag list, with
   the methods the interface asks for implemented as the package's users do
   (ClearGeoBoxTags empties the list, AddGeoBoxTag appends to it). *)

Locatable(loc, tags) == [Location |-> loc, GeoBoxTags |-> tags]

GetLocation(l) == l.Location

ClearGeoBoxTags(l) == [l EXCEPT !.GeoBoxTags = <<>>]

AddGeoBoxTag(l, t) == [l EXCEPT !.GeoBoxTags = Append(l.GeoBoxTags, t)]

(* The loop of GenerateGeoBoxTags. *)
RECURSIVE GenerateLoop(_, _)
GenerateLoop(g, l) ==
  IF GetDepth(g) < MAXDEPTH
  THEN LET d == Descend(g)
       IN  IF d.err # NoErr
           THEN [l |-> l, err |-> d.err]
           ELSE GenerateLoop(d.g, AddGeoBoxTag(l, d.g.hash))
  ELSE [l |-> l, err |-> NoErr]

(* GenerateGeoBoxTags without the call of ClearGeoBoxTags. *)
GenerateGeoBoxTagsNoClear(l) ==
  GenerateLoop(Geohasher(GetLocation(l)), l)

(* GenerateGeoBoxTags: the entity after the call and the error returned. *)
GenerateGeoBoxTags(l) ==
  GenerateLoop(Geohasher(GetLocation(l)), ClearGeoBoxTags(l))


----------------------------------------------------------------------------
(* Neighbor navigation *)

(* strconv.ParseInt(boxcode, 16, 0) on a one-symbol string: its value, or a
   syntax error when the symbol is no hexadecimal digit (ParseInt reads the
   lower-case digits too). *)
ParseInt16(boxcode) ==
  CASE boxcode = "0" -> [val |-> 0, err |-> NoErr]
    [] boxcode = "1" -> [val |-> 1, err |-> NoErr]
    [] boxcode = "2" -> [val |-> 2, err |-> NoErr]
    [] boxcode = "3" -> [val |-> 3, err |-> NoErr]
    [] boxcode = "4" -> [val |-> 4, err |-> NoErr]
    [] boxcode = "5" -> [val |-> 5, err |-> NoErr]
    [] boxcode = "6" -> [val |-> 6, err |-> NoErr]
    [] boxcode = "7" -> [val |-> 7, err |-> NoErr]
    [] boxcode = "8" -> [val |-> 8, err |-> NoErr]
    [] boxcode = "9" -> [val |-> 9, err |-> NoErr]
    [] boxcode \in {"A", "a"} -> [val |-> 10, err |-> NoErr]
    [] boxcode \in {"B", "b"} -> [val |-> 11, err |-> NoErr]
    [] boxcode \in {"C", "c"} -> [val |-> 12, err |-> NoErr]
    [] boxcode \in {"D", "d"} -> [val |-> 13, err |-> NoErr]
    [] boxcode \in {"E", "e"} -> [val |-> 14, err |-> NoErr]
    [] boxcode \in {"F", "f"} -> [val |-> 15, err |-> NoErr]
    [] OTHER -> [val |-> 0, err |-> ErrSyntax]

(* GetNorthBoxTag with the parent left as it is when the row wraps. *)
GetNorthBoxTagNoCarry(boxtag) ==
  LET hashlen == Len(boxtag)
  IN  IF hashlen = 0 THEN [tag |-> <<>>, err |-> ErrEmptyTag]
      ELSE
        LET prefix == SubSeq(boxtag, 1, hashlen - 1)
            parsed == ParseInt16(boxtag[hashlen])
            boxnorthint == (parsed.val + 4) % 16
        IN  IF parsed.err # NoErr THEN [tag |-> <<>>, err |-> parsed.err]
            ELSE [tag |-> prefix \o <<CODES[(boxnorthint \div 4) + 1][(boxnorthint % 4) + 1]>>,
                  err |-> NoErr]

(* GetNorthBoxTag: the tag returned and the error. *)
RECURSIVE GetNorthBoxTag(_)
GetNorthBoxTag(boxtag) ==
  LET hashlen == Len(boxtag)
  IN  IF hashlen = 0 THEN [tag |-> <<>>, err |-> ErrEmptyTag]
      ELSE
        LET prefix == SubSeq(boxtag, 1, hashlen - 1)
            boxcode == boxtag[hashlen]
            parsed == ParseInt16(boxcode)
            boxint == parsed.val
            boxnorthint == boxint + 4
        IN  IF parsed.err # NoErr THEN [tag |-> <<>>, err |-> parsed.err]
            ELSE IF boxnorthint >= 16
            THEN LET wrapped == boxnorthint - 16
                     up == GetNorthBoxTag(prefix)
                 IN  IF up.err # NoErr THEN [tag |-> <<>>, err |-> up.err]
                     ELSE [tag |-> up.tag \o <<CODES[(wrapped \div 4) + 1][(wrapped % 4) + 1]>>,
                           err |-> NoErr]
            ELSE [tag |-> prefix \o <<CODES[(boxnorthint \div 4) + 1][(boxnorthint % 4) + 1]>>,
                  err |-> NoErr]

(* GetEastBoxTag with the carry sent to the parent's northern neighbour, as
   in the function it was copied from. *)
RECURSIVE GetEastBoxTag(_)
GetEastBoxTagCarryNorth(boxtag) ==
  LET hashlen == Len(boxtag)
  IN  IF hashlen = 0 THEN [tag |-> <<>>, err |-> ErrEmptyTag]
      ELSE
        LET prefix == SubSeq(boxtag, 1, hashlen - 1)
            parsed == ParseInt16(boxtag[hashlen])
            boxint == parsed.val
            boxeastint == boxint + 1
        IN  IF parsed.err # NoErr THEN [tag |-> <<>>, err |-> parsed.err]
            ELSE IF (boxint % 4) + 1 >= 4
            THEN LET wrapped == boxeastint - 4
                     up == GetNorthBoxTag(prefix)
                 IN  IF up.err # NoErr THEN [tag |-> <<>>, err |-> up.err]
                     ELSE [tag |-> up.tag \o <<CODES[(wrapped \div 4) + 1][(wrapped % 4) + 1]>>,
                           err |-> NoErr]
            ELSE [tag |-> prefix \o <<CODES[(boxeastint \div 4) + 1][(boxeastint % 4) + 1]>>,
                  err |-> NoErr]

(* GetEastBoxTag: the tag returned and the error. *)
GetEastBoxTag(boxtag) ==
  LET hashlen == Len(boxtag)
  IN  IF hashlen = 0 THEN [tag |-> <<>>, err |-> ErrEmptyTag]
      ELSE
        LET prefix == SubSeq(boxtag, 1, hashlen - 1)
            boxcode == boxtag[hashlen]
            parsed == ParseInt16(boxcode)
            boxint == parsed.val
            boxeastint == boxint + 1
        IN  IF parsed.err # NoErr THEN [tag |-> <<>>, err |-> parsed.err]
            ELSE IF (boxint % 4) + 1 >= 4
            THEN LET wrapped == boxeastint - 4
                     up == GetEastBoxTag(prefix)
                 IN  IF up.err # NoErr THEN [tag |-> <<>>, err |-> up.err]
                     ELSE [tag |-> up.tag \o <<CODES[(wrapped \div 4) + 1][(wrapped % 4) + 1]>>,
                           err |-> NoErr]
            ELSE [tag |-> prefix \o <<CODES[(boxeastint \div 4) + 1][(boxeastint % 4) + 1]>>,
                  err |-> NoErr]

----------------------------------------------------------------------------
(* Region tiler *)

(* One turn of the descent loop's body on the four corner hashers
   h = [sw, ne, se, nw]: the four after it, and the first error. *)
DescendCorners(h) ==
  LET sw == Descend(h.sw)
      ne == Descend(h.ne)
      se == Descend(h.se)
      nw == Descend(h.nw)
  IN  IF sw.err # NoErr THEN [h |-> h, err |-> sw.err]
      ELSE IF ne.err # NoErr THEN [h |-> h, err |-> ne.err]
      ELSE IF se.err # NoErr THEN [h |-> h, err |-> se.err]
      ELSE IF nw.err # NoErr THEN [h |-> h, err |-> nw.err]
      ELSE [h |-> [sw |-> sw.g, ne |-> ne.g, se |-> se.g, nw |-> nw.g], err |-> NoErr]

(* The descent loop of GeoBoxTagsFromViewBounds.  Go evaluates the loop
   condition left to right, so BOXSIZES[depth+1] is read before
   depth < MAXDEPTH is tested: at depth MAXDEPTH the index MAXDEPTH+1 is
   outside the array and the program panics.  ViewBoundsTurn is the loop
   after one turn of its body returned r. *)
RECURSIVE ViewBoundsDescend(_, _)
ViewBoundsTurn(r, viewbounds) ==
  IF r.err # NoErr THEN r ELSE ViewBoundsDescend(r.h, viewbounds)

(* ViewBoundsDescend with the rectangle compared to the boxes of the depth
   reached, not of the next one. *)
ViewBoundsDescendCurrentDepth(h, viewbounds) ==
  LET next == GetDepth(h.sw) + 1
  IN  IF next \notin DOMAIN BOXSIZES THEN [h |-> h, err |-> PANIC]
      ELSE IF BOXSIZES[next - 1].Lat > Abs(viewbounds.NE.Lat - viewbounds.SW.Lat)
              /\ BOXSIZES[next - 1].Lng > Abs(viewbounds.NE.Lng - viewbounds.SW.Lng)
              /\ GetDepth(h.sw) < MAXDEPTH
      THEN ViewBoundsTurn(DescendCorners(h), viewbounds)
      ELSE [h |-> h, err |-> NoErr]

ViewBoundsDescend(h, viewbounds) ==
  LET next == GetDepth(h.sw) + 1
  IN  IF next \notin DOMAIN BOXSIZES THEN [h |-> h, err |-> PANIC]
      ELSE IF BOXSIZES[next].Lat > Abs(viewbounds.NE.Lat - viewbounds.SW.Lat)
              /\ BOXSIZES[next].Lng > Abs(viewbounds.NE.Lng - viewbounds.SW.Lng)
              /\ GetDepth(h.sw) < MAXDEPTH
      THEN ViewBoundsTurn(DescendCorners(h), viewbounds)
      ELSE [h |-> h, err |-> NoErr]

(* The inner loop collecting the cursor after the step north instead of
   before it. *)
RECURSIVE NorthWalkLate(_, _, _)
NorthWalkLate(cursor, endtop, geoboxtags) ==
  IF cursor # endtop
  THEN LET n == GetNorthBoxTag(cursor)
       IN  IF n.err # NoErr
           THEN [tags |-> <<>>, err |-> n.err]
           ELSE NorthWalkLate(n.tag, endtop, Append(geoboxtags, n.tag))
  ELSE [tags |-> geoboxtags, err |-> NoErr]

(* The inner loop: north from cursor until endtop. *)
RECURSIVE NorthWalk(_, _, _)
NorthWalk(cursor, endtop, geoboxtags) ==
  IF cursor # endtop
  THEN LET n == GetNorthBoxTag(cursor)
       IN  IF n.err # NoErr
           THEN [tags |-> <<>>, err |-> n.err]
           ELSE NorthWalk(n.tag, endtop, Append(geoboxtags, cursor))
  ELSE [tags |-> geoboxtags, err |-> NoErr]

(* The outer loop: east from botcursor until endbot, one column a turn. *)
RECURSIVE EastWalk(_, _, _, _)
EastWalk(botcursor, topcursor, endbot, geoboxtags) ==
  IF botcursor # endbot
  THEN LET endtop == GetNorthBoxTag(topcursor)
           column == NorthWalk(botcursor, endtop.tag, geoboxtags)
           bot == GetEastBoxTag(botcursor)
           top == GetEastBoxTag(topcursor)
       IN  IF endtop.err # NoErr THEN [tags |-> <<>>, err |-> endtop.err]
           ELSE IF column.err # NoErr THEN [tags |-> <<>>, err |-> column.err]
           ELSE IF bot.err # NoErr THEN [tags |-> <<>>, err |-> bot.err]
           ELSE IF top.err # NoErr THEN [tags |-> <<>>, err |-> top.err]
           ELSE EastWalk(bot.tag, top.tag, endbot, column.tags)
  ELSE [tags |-> geoboxtags, err |-> NoErr]

(* The four hashers GeoBoxTagsFromViewBounds starts from. *)
CornerHashers(viewbounds) ==
  [sw |-> Geohasher(viewbounds.SW),
   ne |-> Geohasher(viewbounds.NE),
   se |-> Geohasher(LatLng(viewbounds.SW.Lat, viewbounds.NE.Lng)),
   nw |-> Geohasher(LatLng(viewbounds.NE.Lat, viewbounds.SW.Lng))]

(* TagsFromCorners with the tag list starting from the SW corner's tag
   instead of empty. *)
TagsFromCornersSeeded(d) ==
  LET swhash == GetHash(d.h.sw)
      nehash == GetHash(d.h.ne)
      sehash == GetHash(d.h.se)
      nwhash == GetHash(d.h.nw)
      hashlen == Len(swhash)
      endbot == GetEastBoxTag(sehash)
  IN  IF d.err # NoErr THEN [tags |-> <<>>, err |-> d.err]
      ELSE IF swhash = nehash THEN [tags |-> <<swhash>>, err |-> NoErr]
      ELSE IF hashlen # Len(nehash) \/ hashlen # Len(sehash) \/ hashlen # Len(nwhash)
      THEN [tags |-> <<>>, err |-> ErrDepths]
      ELSE IF endbot.err # NoErr THEN [tags |-> <<>>, err |-> endbot.err]
      ELSE EastWalk(swhash, nwhash, endbot.tag, <<swhash>>)

(* GeoBoxTagsFromViewBounds after its descent loop ended with d. *)
TagsFromCorners(d) ==
  LET swhash == GetHash(d.h.sw)
      nehash == GetHash(d.h.ne)
      sehash == GetHash(d.h.se)
      nwhash == GetHash(d.h.nw)
      hashlen == Len(swhash)
      endbot == GetEastBoxTag(sehash)
  IN  IF d.err # NoErr THEN [tags |-> <<>>, err |-> d.err]
      ELSE IF swhash = nehash THEN [tags |-> <<swhash>>, err |-> NoErr]
      ELSE IF hashlen # Len(nehash) \/ hashlen # Len(sehash) \/ hashlen # Len(nwhash)
      THEN [tags |-> <<>>, err |-> ErrDepths]
      ELSE IF endbot.err # NoErr THEN [tags |-> <<>>, err |-> endbot.err]
      ELSE EastWalk(swhash, nwhash, endbot.tag, <<>>)

(* GeoBoxTagsFromViewBounds: the tag list returned and the error (PANIC when
   the call does not return). *)
GeoBoxTagsFromViewBounds(viewbounds) ==
  TagsFromCorners(ViewBoundsDescend(CornerHashers(viewbounds), viewbounds))

----------------------------------------------------------------------------
(* Store: the two handlers and the datastore they talk to.  The datastore is
   the sequence of the entities put so far; the key of an entity is its
   index (datastore.Put with an incomplete key makes a new key each time). *)

ErrDatastore == "datastore: call failed"

Contains(seq, x) == \E i \in DOMAIN seq : seq[i] = x

(* datastore.NewQuery(kind).Filter("GeoBoxTags =", tag).GetAll: the keys of
   the stored entities whose tag list holds tag, each key once, in key
   order. *)
RECURSIVE GetAll(_, _, _)
GetAll(store, geoboxtag, k) ==
  IF k > Len(store) THEN <<>>
  ELSE (IF Contains(store[k].GeoBoxTags, geoboxtag) THEN <<k>> ELSE <<>>)
       \o GetAll(store, geoboxtag, k + 1)

(* The loop of GetEntitiesByRegion over the tags from position i on. *)
RECURSIVE QueryLoop(_, _, _, _)
QueryLoop(store, geoboxtags, i, keys) ==
  IF i > Len(geoboxtags) THEN keys
  ELSE QueryLoop(store, geoboxtags, i + 1, keys \o GetAll(store, geoboxtags[i], 1))

(* GetEntitiesByRegion after GeoBoxTagsFromViewBounds returned t. *)
KeysOfTags(store, t, up) ==
  IF t.err # NoErr THEN [keys |-> <<>>, err |-> t.err]
  ELSE IF ~up /\ Len(t.tags) > 0 THEN [keys |-> <<>>, err |-> ErrDatastore]
  ELSE [keys |-> QueryLoop(store, t.tags, 1, <<>>), err |-> NoErr]

(* GetEntitiesByRegion: the keys returned and the error; up tells whether
   the datastore answers the lookups. *)
GetEntitiesByRegion(store, viewbounds, up) ==
  KeysOfTags(store, GeoBoxTagsFromViewBounds(viewbounds), up)

(* StoreEntity after GenerateGeoBoxTags returned g. *)
PutGenerated(store, g, up) ==
  IF g.err # NoErr
  THEN [l |-> g.l, store |-> store, put |-> FALSE, err |-> g.err]
  ELSE IF ~up
  THEN [l |-> g.l, store |-> store, put |-> TRUE, err |-> ErrDatastore]
  ELSE [l |-> g.l, store |-> Append(store, g.l), put |-> TRUE, err |-> NoErr]

(* StoreEntity: the entity after the call, the datastore after the call,
   whether datastore.Put was called, and the error; up tells whether the
   datastore accepts the put. *)
StoreEntity(store, entity, up) ==
  PutGenerated(store, GenerateGeoBoxTags(entity), up)

----------------------------------------------------------------------------
(* Inputs *)

MaxOffset == 1
MaxSpan == 2
MaxStored == 1
MaxSteps == 4

(* The whole tick at or next to the coordinate sign * (num/den) * MAXLAT,
   0 <= num < den, found by long division (2*MAXDEPTH binary digits): the
   coordinate itself when it is a whole tick, and else the odd one of the two
   ticks around it, which lies strictly inside the same depth-MAXDEPTH cell
   and so compares alike with every box edge. *)
RECURSIVE LongDivision(_, _, _, _)
LongDivision(q, r, den, k) ==
  IF k = 0 THEN <<q, r>>
  ELSE LongDivision(2 * q + (IF 2 * r >= den THEN 1 ELSE 0), (2 * r) % den, den, k - 1)

TickOf(sign, num, den) ==
  LET qr == LongDivision(0, num, den, 2 * MAXDEPTH)
  IN  sign * (IF qr[2] = 0 \/ qr[1] % 2 = 1 THEN qr[1] ELSE qr[1] + 1)

(* Lat 37.781 = 37781/90000 of 90 degrees, Lng -122.4113 = -1224113/1800000
   of 180 degrees: the example of the package comment. *)
ExamplePoint == LatLng(TickOf(1, 37781, 90000), TickOf(-1, 1224113, 1800000))

(* Coordinates around the world's edges and around a grid line of every
   depth (0 is an edge of a cell at each depth 1..MAXDEPTH). *)
Anchors == {MINLAT, 0, MAXLAT}

Coords ==
  {c \in UNION {{a - e, a + e} : a \in Anchors, e \in 0..MaxOffset} :
     c >= MINLAT /\ c <= MAXLAT}

(* Rectangle sizes: the smallest ones, and the size of a cell of some depths
   and one tick less. *)
SpanDepths == {0, 1, 5}

Spans ==
  (0..MaxSpan) \cup UNION {{BOXSIZES[d].Lat - 1, BOXSIZES[d].Lat} : d \in SpanDepths}

Points == {LatLng(lat, lng) : lat \in Coords, lng \in Coords}

(* Rectangles inside the world with SW <= NE in both coordinates. *)
ViewBounds ==
  {b \in {LatLngBounds(LatLng(sw.Lat + h, sw.Lng + w), sw) :
            sw \in Points, h \in Spans, w \in Spans} :
     Within(b.NE, WorldBox)}

(* A rectangle with its corners exchanged in latitude, in longitude or in
   both, as a caller may pass them. *)
Inverted(b, lat, lng) ==
  LatLngBounds(
    LatLng(IF lat THEN b.SW.Lat ELSE b.NE.Lat, IF lng THEN b.SW.Lng ELSE b.NE.Lng),
    LatLng(IF lat THEN b.NE.Lat ELSE b.SW.Lat, IF lng THEN b.NE.Lng ELSE b.SW.Lng))

(* Rectangles whose four corners lie inside the world, whatever the order
   of SW and NE. *)
WalkBounds == {Inverted(b, lat, lng) : b \in ViewBounds, lat \in BOOLEAN, lng \in BOOLEAN}

(* Points outside the world. *)
OutsidePoints == {LatLng(MAXLAT + 1, 0), LatLng(0, MINLNG - 1)}

(* Points Descend is applied to on its own: those above, the example, and
   points on a grid line that first appears at a depth between the first and
   the last, where sub-cells of that depth share them. *)
GridDepths == {3, 6, MAXDEPTH}

GridCoords == {BOXSIZES[d].Lat : d \in GridDepths}

DescendPoints ==
  {LatLng(lat, lng) : lat \in Coords \cup GridCoords, lng \in Coords \cup GridCoords}
    \cup OutsidePoints \cup {ExamplePoint}

(* Tag lists an entity may carry before a call: none, a stale one, and the
   ten tags of another place. *)
PriorTags ==
  {<<>>, <<<<"F">>, <<"F", "0">>>>,
   GenerateGeoBoxTags(Locatable(LatLng(MAXLAT, MINLNG), <<>>)).l.GeoBoxTags}

(* Entities handed to GenerateGeoBoxTags on its own. *)
GenEntities ==
  {Locatable(p, t) : p \in Points \cup OutsidePoints \cup {ExamplePoint}, t \in PriorTags}

(* Places of the entities handed to the Store: the points of the diagonal. *)
StorePoints == {p \in Points : p.Lat = p.Lng}

StoreEntities ==
  {Locatable(p, t) : p \in StorePoints \cup OutsidePoints, t \in PriorTags}

(* Query rectangles, SW <= NE in both coordinates: the squares between two
   points of the diagonal, and the segments east and north of one. *)
QueryBounds ==
  {b \in [NE : Points, SW : StorePoints] :
     /\ b.SW.Lat <= b.NE.Lat /\ b.SW.Lng <= b.NE.Lng
     /\ b.NE \in StorePoints \/ b.NE.Lat = b.SW.Lat \/ b.NE.Lng = b.SW.Lng}

(* Tags the navigation is tried on: every length 1..MAXDEPTH, any first and
   last symbol of a few rows and columns, and a run of one corner symbol in
   between (a run of "F" carries north and east, "3" east, "C" north). *)
Alphabet == {CODES[i][j] : i \in 1..4, j \in 1..4}

FirstSymbols == {"0", "3", "5", "C", "F"}

FillSymbols == {"0", "3", "C", "F"}

RECURSIVE Run(_, _)
Run(sym, n) == IF n <= 0 THEN <<>> ELSE <<sym>> \o Run(sym, n - 1)

NavTags ==
  {<<a>> : a \in Alphabet} \cup
  {<<a>> \o Run(f, d - 2) \o <<z>> :
     a \in FirstSymbols, f \in FillSymbols, z \in Alphabet, d \in 2..MAXDEPTH}

----------------------------------------------------------------------------
(* State *)

VARIABLES
  datastore,   \* Spec: the entities put so far, by key
  call,        \* Spec: the Store call that has just returned, or Idle
  entity,      \* SpecGen: the entity GenerateGeoBoxTags is applied to
  generated,   \* SpecGen: what the call left and returned
  viewbounds,  \* SpecTiler: the rectangle GeoBoxTagsFromViewBounds is applied to
  tiled,       \* SpecTiler: what the call returned
  trail,       \* SpecNav: the tags visited, the first one the input
  steps,       \* SpecNav: the directions stepped, "N" or "E"
  naverr,      \* SpecNav: the error of the last step
  descent,     \* SpecDescend: the Geohasher before and after the last Descend
  walk         \* SpecWalk: the locals of GeoBoxTagsFromViewBounds as it runs

vars ==
  <<datastore, call, entity, generated, viewbounds, tiled, trail, steps, naverr,
    descent, walk>>

storeVars == <<datastore, call>>
genVars == <<entity, generated>>
tilerVars == <<viewbounds, tiled>>
navVars == <<trail, steps, naverr>>

NoEntity == Locatable(LatLng(0, 0), <<>>)

Idle ==
  [op |-> "idle", entity |-> NoEntity, after |-> NoEntity, viewbounds |-> WorldBox,
   keys |-> <<>>, put |-> FALSE, err |-> NoErr]

StoreInit == datastore = <<>> /\ call = Idle

GenRest == entity = NoEntity /\ generated = [done |-> FALSE, l |-> NoEntity, err |-> NoErr]

TilerRest == viewbounds = WorldBox /\ tiled = [done |-> FALSE, tags |-> <<>>, err |-> NoErr]

NavRest == trail = <<>> /\ steps = <<>> /\ naverr = NoErr

DescentRest ==
  descent = [g |-> Geohasher(LatLng(0, 0)), before |-> Geohasher(LatLng(0, 0)),
             err |-> NoErr, calls |-> 0]

NoWalk ==
  [pc |-> "rest", h |-> CornerHashers(WorldBox), botcursor |-> <<>>, topcursor |-> <<>>,
   endbot |-> <<>>, cursor |-> <<>>, endtop |-> <<>>, geoboxtags |-> <<>>, err |-> NoErr,
   turns |-> 0]

WalkRest == walk = NoWalk

----------------------------------------------------------------------------
(* Spec: a client of the Store.  Each call runs to its return in one step;
   Return is the client taking the result. *)

Init == StoreInit /\ GenRest /\ TilerRest /\ NavRest /\ DescentRest /\ WalkRest

CallGenerateGeoBoxTags ==
  /\ call.op = "idle"
  /\ \E l \in StoreEntities :
       LET r == GenerateGeoBoxTags(l)
       IN  call' = [Idle EXCEPT !.op = "GenerateGeoBoxTags", !.entity = l,
                                !.after = r.l, !.err = r.err]
  /\ UNCHANGED <<datastore, genVars, tilerVars, navVars, descent, walk>>

CallStoreEntity ==
  /\ call.op = "idle"
  /\ Len(datastore) < MaxStored
  /\ \E l \in StoreEntities, up \in BOOLEAN :
       LET r == StoreEntity(datastore, l, up)
       IN  /\ datastore' = r.store
           /\ call' = [Idle EXCEPT !.op = "StoreEntity", !.entity = l, !.after = r.l,
                                   !.put = r.put, !.err = r.err]
  /\ UNCHANGED <<genVars, tilerVars, navVars, descent, walk>>

CallGetEntitiesByRegion ==
  /\ call.op = "idle"
  /\ \E b \in QueryBounds, up \in BOOLEAN :
       LET r == GetEntitiesByRegion(datastore, b, up)
       IN  call' = [Idle EXCEPT !.op = "GetEntitiesByRegion", !.viewbounds = b,
                                !.keys = r.keys, !.err = r.err]
  /\ UNCHANGED <<datastore, genVars, tilerVars, navVars, descent, walk>>

Return ==
  /\ call.op # "idle"
  /\ call' = Idle
  /\ UNCHANGED <<datastore, genVars, tilerVars, navVars, descent, walk>>

Next ==
  \/ CallGenerateGeoBoxTags
  \/ CallStoreEntity
  \/ CallGetEntitiesByRegion
  \/ Return

Spec == Init /\ [][Next]_vars

----------------------------------------------------------------------------
(* SpecGen: GenerateGeoBoxTags applied to one entity. *)

InitGen ==
  /\ entity \in GenEntities
  /\ generated = [done |-> FALSE, l |-> entity, err |-> NoErr]
  /\ StoreInit /\ TilerRest /\ NavRest /\ DescentRest /\ WalkRest

Generate ==
  /\ ~generated.done
  /\ LET r == GenerateGeoBoxTags(entity)
     IN  generated' = [done |-> TRUE, l |-> r.l, err |-> r.err]
  /\ UNCHANGED <<entity, storeVars, tilerVars, navVars, descent, walk>>

NextGen == Generate

SpecGen == InitGen /\ [][NextGen]_vars

----------------------------------------------------------------------------
(* SpecTiler: GeoBoxTagsFromViewBounds applied to one rectangle. *)

InitTiler ==
  /\ viewbounds \in ViewBounds
  /\ tiled = [done |-> FALSE, tags |-> <<>>, err |-> NoErr]
  /\ StoreInit /\ GenRest /\ NavRest /\ DescentRest /\ WalkRest

Tile ==
  /\ ~tiled.done
  /\ LET r == GeoBoxTagsFromViewBounds(viewbounds)
     IN  tiled' = [done |-> TRUE, tags |-> r.tags, err |-> r.err]
  /\ UNCHANGED <<viewbounds, storeVars, genVars, navVars, descent, walk>>

NextTiler == Tile

SpecTiler == InitTiler /\ [][NextTiler]_vars

----------------------------------------------------------------------------
(* SpecNav: GetNorthBoxTag and GetEastBoxTag applied in turn, at most
   MaxSteps times, from one tag.  A step that fails ends the walk. *)

InitNav ==
  /\ \E t \in NavTags : trail = <<t>>
  /\ steps = <<>>
  /\ naverr = NoErr
  /\ StoreInit /\ GenRest /\ TilerRest /\ DescentRest /\ WalkRest

StepNorth ==
  /\ naverr = NoErr
  /\ Len(steps) < MaxSteps
  /\ LET r == GetNorthBoxTag(trail[Len(trail)])
     IN  /\ trail' = IF r.err = NoErr THEN Append(trail, r.tag) ELSE trail
         /\ naverr' = r.err
  /\ steps' = Append(steps, "N")
  /\ UNCHANGED <<storeVars, genVars, tilerVars, descent, walk>>

StepEast ==
  /\ naverr = NoErr
  /\ Len(steps) < MaxSteps
  /\ LET r == GetEastBoxTag(trail[Len(trail)])
     IN  /\ trail' = IF r.err = NoErr THEN Append(trail, r.tag) ELSE trail
         /\ naverr' = r.err
  /\ steps' = Append(steps, "E")
  /\ UNCHANGED <<storeVars, genVars, tilerVars, descent, walk>>

NextNav == StepNorth \/ StepEast

SpecNav == InitNav /\ [][NextNav]_vars

----------------------------------------------------------------------------
(* SpecDescend: Descend called on one Geohasher again and again, as the
   loops of GenerateGeoBoxTags and GeoBoxTagsFromViewBounds call it: while
   the depth is below MAXDEPTH and no call has failed. *)

InitDescend ==
  /\ \E p \in DescendPoints :
       descent = [g |-> Geohasher(p), before |-> Geohasher(p), err |-> NoErr, calls |-> 0]
  /\ StoreInit /\ GenRest /\ TilerRest /\ NavRest /\ WalkRest

CallDescend ==
  /\ descent.err = NoErr
  /\ GetDepth(descent.g) < MAXDEPTH
  /\ LET r == Descend(descent.g)
     IN  descent' = [g |-> r.g, before |-> descent.g, err |-> r.err,
                     calls |-> descent.calls + 1]
  /\ UNCHANGED <<storeVars, genVars, tilerVars, navVars, walk>>

NextDescend == CallDescend

SpecDescend == InitDescend /\ [][NextDescend]_vars

----------------------------------------------------------------------------
(* SpecWalk: GeoBoxTagsFromViewBounds run on one rectangle a loop turn at a
   time.  walk.pc is the place in the code: "descend" the head of the descent
   loop (line 301), "corners" line 322, "outer" the head of the east-walk
   loop (line 349), "inner" the head of the north-walk loop (line 357),
   "east" line 366, "returned" after a return, "panic" after a run-time
   panic.  A return with an error returns a nil list.  walk.turns counts the
   steps taken. *)

Returned(tags, err) ==
  [walk EXCEPT !.turns = @ + 1, !.pc = "returned", !.geoboxtags = tags, !.err = err]

InitWalk ==
  /\ viewbounds \in WalkBounds
  /\ walk = [NoWalk EXCEPT !.pc = "descend", !.h = CornerHashers(viewbounds)]
  /\ tiled = [done |-> FALSE, tags |-> <<>>, err |-> NoErr]
  /\ StoreInit /\ GenRest /\ NavRest /\ DescentRest

(* One evaluation of the descent loop's condition and, when it holds, one
   turn of its body (lines 301-320). *)
WalkDescend ==
  /\ walk.pc = "descend"
  /\ LET next == GetDepth(walk.h.sw) + 1
     IN  IF next \notin DOMAIN BOXSIZES
         THEN walk' = [walk EXCEPT !.turns = @ + 1, !.pc = "panic", !.err = PANIC]
         ELSE IF BOXSIZES[next].Lat > Abs(viewbounds.NE.Lat - viewbounds.SW.Lat)
                 /\ BOXSIZES[next].Lng > Abs(viewbounds.NE.Lng - viewbounds.SW.Lng)
                 /\ GetDepth(walk.h.sw) < MAXDEPTH
         THEN LET r == DescendCorners(walk.h)
              IN  IF r.err # NoErr
                  THEN walk' = Returned(<<>>, r.err)
                  ELSE walk' = [walk EXCEPT !.turns = @ + 1, !.h = r.h]
         ELSE walk' = [walk EXCEPT !.turns = @ + 1, !.pc = "corners"]
  /\ UNCHANGED <<viewbounds, tiled, storeVars, genVars, navVars, descent>>

(* Lines 322-347: the four hashes, the single-cell return, the depth check
   and the cursors of the walk. *)
WalkCorners ==
  /\ walk.pc = "corners"
  /\ LET swhash == GetHash(walk.h.sw)
         nehash == GetHash(walk.h.ne)
         sehash == GetHash(walk.h.se)
         nwhash == GetHash(walk.h.nw)
         hashlen == Len(swhash)
         endbot == GetEastBoxTag(sehash)
     IN  IF swhash = nehash THEN walk' = Returned(<<swhash>>, NoErr)
         ELSE IF hashlen # Len(nehash) \/ hashlen # Len(sehash) \/ hashlen # Len(nwhash)
         THEN walk' = Returned(<<>>, ErrDepths)
         ELSE IF endbot.err # NoErr THEN walk' = Returned(<<>>, endbot.err)
         ELSE walk' = [walk EXCEPT !.turns = @ + 1, !.pc = "outer", !.geoboxtags = <<>>,
                                   !.botcursor = swhash, !.topcursor = nwhash,
                                   !.endbot = endbot.tag]
  /\ UNCHANGED <<viewbounds, tiled, storeVars, genVars, navVars, descent>>

(* Lines 349-355: the outer loop's test and the start of a column. *)
WalkOuter ==
  /\ walk.pc = "outer"
  /\ IF walk.botcursor # walk.endbot
     THEN LET endtop == GetNorthBoxTag(walk.topcursor)
          IN  IF endtop.err # NoErr
              THEN walk' = Returned(<<>>, endtop.err)
              ELSE walk' = [walk EXCEPT !.turns = @ + 1, !.pc = "inner", !.cursor = walk.botcursor,
                                        !.endtop = endtop.tag]
     ELSE walk' = Returned(walk.geoboxtags, NoErr)
  /\ UNCHANGED <<viewbounds, tiled, storeVars, genVars, navVars, descent>>

(* Lines 357-364: the inner loop's test and one turn of its body. *)
WalkInner ==
  /\ walk.pc = "inner"
  /\ IF walk.cursor # walk.endtop
     THEN LET n == GetNorthBoxTag(walk.cursor)
          IN  IF n.err # NoErr
              THEN walk' = Returned(<<>>, n.err)
              ELSE walk' = [walk EXCEPT !.turns = @ + 1, !.geoboxtags = Append(walk.geoboxtags, walk.cursor),
                                        !.cursor = n.tag]
     ELSE walk' = [walk EXCEPT !.turns = @ + 1, !.pc = "east"]
  /\ UNCHANGED <<viewbounds, tiled, storeVars, genVars, navVars, descent>>

(* Lines 366-373: both cursors one column east. *)
WalkEast ==
  /\ walk.pc = "east"
  /\ LET bot == GetEastBoxTag(walk.botcursor)
         top == GetEastBoxTag(walk.topcursor)
     IN  IF bot.err # NoErr THEN walk' = Returned(<<>>, bot.err)
         ELSE IF top.err # NoErr THEN walk' = Returned(<<>>, top.err)
         ELSE walk' = [walk EXCEPT !.turns = @ + 1, !.pc = "outer", !.botcursor = bot.tag,
                                   !.topcursor = top.tag]
  /\ UNCHANGED <<viewbounds, tiled, storeVars, genVars, navVars, descent>>

NextWalk ==
  \/ WalkDescend
  \/ WalkCorners
  \/ WalkOuter
  \/ WalkInner
  \/ WalkEast

SpecWalk == InitWalk /\ [][NextWalk]_vars

(* The step machine ends as the operator GeoBoxTagsFromViewBounds says. *)
WalkAgrees ==
  walk.pc \in {"returned", "panic"} =>
    LET r == GeoBoxTagsFromViewBounds(viewbounds)
    IN  walk.geoboxtags = r.tags /\ walk.err = r.err

----------------------------------------------------------------------------
(* Grid geometry the claims are stated in *)

(* Row and column (0..3) of a symbol in the 4 x 4 layout of CODES. *)
SymRow(sym) == CHOOSE i \in 0..3 : \E j \in 0..3 : CODES[i + 1][j + 1] = sym

SymCol(sym) == CHOOSE j \in 0..3 : \E i \in 0..3 : CODES[i + 1][j + 1] = sym

(* Row and column of the cell a tag names in the 4^d x 4^d grid of its
   depth d, row 0 southernmost, column 0 westernmost. *)
RECURSIVE CellRow(_)
CellRow(tag) ==
  IF tag = <<>> THEN 0
  ELSE 4 * CellRow(SubSeq(tag, 1, Len(tag) - 1)) + SymRow(tag[Len(tag)])

RECURSIVE CellCol(_)
CellCol(tag) ==
  IF tag = <<>> THEN 0
  ELSE 4 * CellCol(SubSeq(tag, 1, Len(tag) - 1)) + SymCol(tag[Len(tag)])

(* The tag of depth d of the cell in row r, column c. *)
RECURSIVE TagOfCell(_, _, _)
TagOfCell(d, r, c) ==
  IF d = 0 THEN <<>>
  ELSE TagOfCell(d - 1, r \div 4, c \div 4) \o <<CODES[(r % 4) + 1][(c % 4) + 1]>>

(* The box of the cell a tag names: from the world box, the sub_box of each
   symbol in turn. *)
RECURSIVE CellBoxFrom(_, _)
CellBoxFrom(box, tag) ==
  IF tag = <<>> THEN box
  ELSE CellBoxFrom(
         SubBox(box, SymRow(tag[1]), SymCol(tag[1]),
                Abs(box.NE.Lat - box.SW.Lat) \div 4, Abs(box.NE.Lng - box.SW.Lng) \div 4),
         SubSeq(tag, 2, Len(tag)))

CellBox(tag) == CellBoxFrom(WorldBox, tag)

(* Two boxes share a point, edges counted. *)
Intersects(a, b) ==
  /\ a.SW.Lat <= b.NE.Lat /\ b.SW.Lat <= a.NE.Lat
  /\ a.SW.Lng <= b.NE.Lng /\ b.SW.Lng <= a.NE.Lng

IsPrefix(s, t) == Len(s) <= Len(t) /\ s = SubSeq(t, 1, Len(s))

Occurrences(seq, x) == Cardinality({i \in DOMAIN seq : seq[i] = x})

Easternmost(tag) == 4 ^ Len(tag) - 1

Northernmost(tag) == 4 ^ Len(tag) - 1

----------------------------------------------------------------------------
(* Claims *)

(* C1: every stored entity whose location lies within the query rectangle
   (edges inclusive) is among the keys GetEntitiesByRegion returns, for every
   rectangle inside the world with SW <= NE, whenever the datastore answers. *)
C1_RetrievesEveryEntityInRegion ==
  (call.op = "GetEntitiesByRegion" /\ call.err # ErrDatastore) =>
    \A k \in DOMAIN datastore :
      Within(datastore[k].Location, call.viewbounds) => Contains(call.keys, k)

(* C2: for a point inside the world, GenerateGeoBoxTags succeeds and leaves
   exactly MAXDEPTH tags of lengths 1..MAXDEPTH over the alphabet, each a
   prefix of the next, whatever tags the entity carried before. *)
C2_TenPrefixTags ==
  (generated.done /\ Within(entity.Location, WorldBox)) =>
    LET tags == generated.l.GeoBoxTags
    IN  /\ generated.err = NoErr
        /\ Len(tags) = MAXDEPTH
        /\ \A i \in 1..MAXDEPTH :
             /\ Len(tags[i]) = i
             /\ \A n \in 1..i : tags[i][n] \in Alphabet
        /\ \A i \in 1..(MAXDEPTH - 1) : IsPrefix(tags[i], tags[i + 1])

C2_Witness ==
  /\ generated.done
  /\ Within(entity.Location, WorldBox)
  /\ Len(entity.GeoBoxTags) = MAXDEPTH
  /\ entity.GeoBoxTags # generated.l.GeoBoxTags
  /\ Len(generated.l.GeoBoxTags) = MAXDEPTH

(* C3: on the rectangle SW = NE = P, P inside the world,
   GeoBoxTagsFromViewBounds returns normally with exactly one tag, the tenth
   tag GenerateGeoBoxTags makes for P. *)
C3_PointRectangleGivesFullDepthTag ==
  (tiled.done /\ viewbounds.SW = viewbounds.NE) =>
    /\ tiled.err = NoErr
    /\ tiled.tags =
         <<GenerateGeoBoxTags(Locatable(viewbounds.SW, <<>>)).l.GeoBoxTags[MAXDEPTH]>>

(* C4: on the whole world GeoBoxTagsFromViewBounds returns exactly the 16
   tags of length 1, each once. *)
C4_WholeWorldGivesSixteenTags ==
  (tiled.done /\ viewbounds = WorldBox) =>
    /\ tiled.err = NoErr
    /\ Len(tiled.tags) = 16
    /\ {tiled.tags[i] : i \in DOMAIN tiled.tags} = {<<a>> : a \in Alphabet}

(* C5: the cell of every tag GeoBoxTagsFromViewBounds returns intersects the
   query rectangle, edges inclusive. *)
C5_ReturnedCellsIntersectBounds ==
  (tiled.done /\ tiled.err = NoErr) =>
    \A i \in DOMAIN tiled.tags : Intersects(CellBox(tiled.tags[i]), viewbounds)

C5_Witness ==
  /\ tiled.done
  /\ tiled.err = NoErr
  /\ Len(tiled.tags) = 4
  /\ viewbounds.NE.Lat - viewbounds.SW.Lat # viewbounds.NE.Lng - viewbounds.SW.Lng

(* C6: for Lat 37.781, Lng -122.4113 GenerateGeoBoxTags makes "8" as the
   first tag, "8E64BF8FAB" as the tenth, and its prefixes in between. *)
C6_ExampleGeocode ==
  (generated.done /\ entity.Location = ExamplePoint) =>
    LET tags == generated.l.GeoBoxTags
        full == <<"8", "E", "6", "4", "B", "F", "8", "F", "A", "B">>
    IN  /\ Len(tags) = MAXDEPTH
        /\ tags[1] = <<"8">>
        /\ tags[MAXDEPTH] = full
        /\ \A i \in 1..MAXDEPTH : tags[i] = SubSeq(full, 1, i)

C6_Witness ==
  /\ generated.done
  /\ entity.Location = ExamplePoint
  /\ generated.err = NoErr

(* C7: the key list of one call of GetEntitiesByRegion holds each entity's
   key at most once. *)
C7_NoKeyTwice ==
  call.op = "GetEntitiesByRegion" =>
    \A k \in DOMAIN datastore : Occurrences(call.keys, k) <= 1

C7_Witness ==
  /\ call.op = "GetEntitiesByRegion"
  /\ Len(call.keys) >= 1
  /\ Len(GeoBoxTagsFromViewBounds(call.viewbounds).tags) > 1

(* C8: four successive east steps from a tag T of length 2..10 that stay
   inside the world give a tag of T's length with T's last symbol, whose
   prefix is the eastern neighbour of T's prefix. *)
C8_FourEastStepsCarryOnce ==
  \A i \in 1..(Len(steps) - 3) :
    LET t == trail[i]
        n == Len(t)
    IN  (/\ \A j \in i..(i + 3) : steps[j] = "E"
         /\ n >= 2
         /\ CellCol(t) + 4 <= Easternmost(t)) =>
          /\ Len(trail) >= i + 4
          /\ Len(trail[i + 4]) = n
          /\ trail[i + 4][n] = t[n]
          /\ SubSeq(trail[i + 4], 1, n - 1) = GetEastBoxTag(SubSeq(t, 1, n - 1)).tag

C8_Witness ==
  /\ Len(steps) >= 4
  /\ \A j \in 1..4 : steps[j] = "E"
  /\ Len(trail) >= 5
  /\ Len(trail[1]) = MAXDEPTH
  /\ trail[5][1] # trail[1][1]

(* C9: GenerateGeoBoxTags and StoreEntity either succeed and leave the
   entity with the MAXDEPTH new tags, or fail in the generation and then
   leave the entity's tags as they were and put nothing. *)
C9_NoPartialEffect ==
  call.op \in {"GenerateGeoBoxTags", "StoreEntity"} =>
    /\ call.err = NoErr => Len(call.after.GeoBoxTags) = MAXDEPTH
    /\ call.err \in {ErrOutside, ErrNoSubBox} =>
         /\ call.after.GeoBoxTags = call.entity.GeoBoxTags
         /\ ~call.put

(* C10: GetNorthBoxTag(T) names the cell one row north of T's and
   GetEastBoxTag(T) the cell one column east, at T's depth, unless T is in
   the northernmost row (easternmost column); GetNorthBoxTag("0") = "4". *)
C10_NeighboursMatchGrid ==
  /\ \A i \in 1..Len(steps) :
       LET t == trail[i]
       IN  /\ (steps[i] = "N" /\ CellRow(t) < Northernmost(t)) =>
                /\ Len(trail) > i
                /\ trail[i + 1] = TagOfCell(Len(t), CellRow(t) + 1, CellCol(t))
           /\ (steps[i] = "E" /\ CellCol(t) < Easternmost(t)) =>
                /\ Len(trail) > i
                /\ trail[i + 1] = TagOfCell(Len(t), CellRow(t), CellCol(t) + 1)
  /\ (Len(steps) >= 1 /\ steps[1] = "N" /\ trail[1] = <<"0">>) =>
       (Len(trail) > 1 /\ trail[2] = <<"4">>)

C10_Witness ==
  /\ steps = <<"N">>
  /\ trail = << <<"0">> \o Run("F", MAXDEPTH - 1), <<"4">> \o Run("3", MAXDEPTH - 1) >>

(* C11: for every rectangle inside the world with SW <= NE,
   GeoBoxTagsFromViewBounds never asks for the northern neighbour of a cell
   in the northernmost row nor for the eastern neighbour of a cell in the
   easternmost column, so the call never fails with the empty-tag error. *)
C11_NeverStepsAcrossWorldEdge ==
  (/\ tiled.done
   /\ Within(viewbounds.SW, WorldBox) /\ Within(viewbounds.NE, WorldBox)
   /\ viewbounds.SW.Lat <= viewbounds.NE.Lat
   /\ viewbounds.SW.Lng <= viewbounds.NE.Lng) =>
    tiled.err # ErrEmptyTag

(* C12: when the point lies inside the box the Geohasher had before a call
   of Descend, the call succeeds, appends the code of the lowest latitude
   band and, within it, the lowest longitude band among the sub-cells that
   contain the point, and narrows the box to that sub-cell; the
   no-matching-sub-box error is never returned. *)
C12_DescendTieBreak ==
  LET b == descent.before.Box
      p == descent.before.Point
      latSpacing == (b.NE.Lat - b.SW.Lat) \div 4
      lngSpacing == (b.NE.Lng - b.SW.Lng) \div 4
      LatBands == {i \in 0..3 : /\ b.SW.Lat + i * latSpacing <= p.Lat
                                /\ p.Lat <= b.SW.Lat + (i + 1) * latSpacing}
      LngBands == {j \in 0..3 : /\ b.SW.Lng + j * lngSpacing <= p.Lng
                                /\ p.Lng <= b.SW.Lng + (j + 1) * lngSpacing}
  IN  (/\ descent.calls >= 1
       /\ b.SW.Lat <= p.Lat /\ p.Lat <= b.NE.Lat
       /\ b.SW.Lng <= p.Lng /\ p.Lng <= b.NE.Lng) =>
        /\ descent.err = NoErr
        /\ LatBands # {} /\ LngBands # {}
        /\ \E i \in LatBands, j \in LngBands :
             /\ \A k \in LatBands : i <= k
             /\ \A k \in LngBands : j <= k
             /\ descent.g.hash = descent.before.hash \o <<CODES[i + 1][j + 1]>>
             /\ descent.g.Box.SW = LatLng(b.SW.Lat + i * latSpacing, b.SW.Lng + j * lngSpacing)
             /\ descent.g.Box.NE =
                  LatLng(b.SW.Lat + (i + 1) * latSpacing, b.SW.Lng + (j + 1) * lngSpacing)
             /\ descent.g.Point = p

C12_Witness ==
  LET b == descent.before.Box
      p == descent.before.Point
      latSpacing == (b.NE.Lat - b.SW.Lat) \div 4
      lngSpacing == (b.NE.Lng - b.SW.Lng) \div 4
  IN  /\ descent.calls >= 2
      /\ descent.err = NoErr
      /\ \E i \in 1..3, j \in 1..3 :
           /\ p.Lat = b.SW.Lat + i * latSpacing
           /\ p.Lng = b.SW.Lng + j * lngSpacing
           /\ descent.g.hash = descent.before.hash \o <<CODES[i][j]>>

(* C13: a tag list GeoBoxTagsFromViewBounds returns for a rectangle inside
   the world with SW <= NE holds at most 4 tags, pairwise distinct and of one
   length, within 2 rows and 2 columns of the grid of that depth. *)
C13_AtMostFourDistinctTags ==
  (/\ tiled.done /\ tiled.err = NoErr
   /\ Within(viewbounds.SW, WorldBox) /\ Within(viewbounds.NE, WorldBox)
   /\ viewbounds.SW.Lat <= viewbounds.NE.Lat
   /\ viewbounds.SW.Lng <= viewbounds.NE.Lng) =>
    LET tags == tiled.tags
    IN  /\ Len(tags) <= 4
        /\ \A i, j \in DOMAIN tags : i # j => tags[i] # tags[j]
        /\ \A i, j \in DOMAIN tags : Len(tags[i]) = Len(tags[j])
        /\ Cardinality({CellRow(tags[i]) : i \in DOMAIN tags}) <= 2
        /\ Cardinality({CellCol(tags[i]) : i \in DOMAIN tags}) <= 2

C13_Witness ==
  /\ tiled.done /\ tiled.err = NoErr
  /\ viewbounds.SW.Lat < viewbounds.NE.Lat
  /\ viewbounds.SW.Lng < viewbounds.NE.Lng
  /\ Len(tiled.tags) = 4
  /\ Len(tiled.tags[1]) > 1
  /\ Cardinality({tiled.tags[i] : i \in DOMAIN tiled.tags}) = 4

(* C14: for every rectangle whose four corners lie inside the world, the
   corners in any order, GeoBoxTagsFromViewBounds finishes after finitely
   many steps with a tag list or an error: the steps of a run stay within
   the turns the three loops can take when the rectangle spans at most two
   columns and two rows of the chosen depth, and a run that has stopped has
   returned. *)
C14_FinishesWithTagsOrError ==
  LET descentTurns == MAXDEPTH + 1
      outerTurns == 3
      columnTurns == 3 + 1
  IN  /\ walk.turns <= descentTurns + 1 + outerTurns + 2 * columnTurns
      /\ walk.pc \in {"returned", "panic"} => walk.pc = "returned"

(* C14, the loops alone: every run stays within those turns, whether it
   ends by a return or by the panic of the descent loop. *)
C14_LoopsEnd ==
  LET descentTurns == MAXDEPTH + 1
      outerTurns == 3
      columnTurns == 3 + 1
  IN  walk.turns <= descentTurns + 1 + outerTurns + 2 * columnTurns

============================================================================
